---- MODULE Spec2Model ----
(***************************************************************************)
(* A model of the ray tracer: the worker pool (thread_pool.rs), the render *)
(* loop and the recursive integrator (lib.rs), the sphere hit test         *)
(* (objects.rs), the materials (material.rs) and the image dimensions.     *)
(*                                                                         *)
(* f64 values are modelled in fixed point: the integer n stands for the    *)
(* real n / Unit.                                                          *)
(***************************************************************************)
EXTENDS Integers, Sequences, FiniteSets, TLC

\* ------------------------------------------------------------------ bounds
\* Largest `size` handed to ThreadPool::new.
MaxSize == 2
\* Largest number of jobs handed to ThreadPool::execute before the drop.
MaxJobs == 2
\* Largest number of objects in a scene.
MaxScene == 2
\* Largest `depth` the integrator is started with.
MaxDepth == 2
\* Largest `width` handed to Image::new, besides the 400 of run().
MaxWidth == 8
\* Largest width and height of a rendered image.
MaxW == 2
MaxH == 2
MaxSamples == 4
MaxHitShapes == 2
\* The samples taken per pixel (SAMPLES_PER_PIXEL is 50 in the program).
SamplesPerPixel == 2

\* --------------------------------------------------------------- variables
VARIABLES
    size,         \* the argument of ThreadPool::new
    mpc,          \* where the thread that owns the pool is
    result,       \* what ThreadPool::new returned: "none", "Ok", "Err"
    channel,      \* whether mpsc::channel() has been called
    senderAlive,  \* whether ThreadPool.sender still exists
    queue,        \* the messages in the channel, oldest first
    workers,      \* ThreadPool.workers: records [id, thread]
    wstate,       \* per worker id: where its thread is
    wjob,         \* per worker id: the job it is running (0: none)
    lock,         \* the set of workers holding the receiver's Mutex
    sent,         \* how many jobs execute() has sent (jobs 1..sent)
    runs,         \* per job: how many times its closure has run
    termSent,     \* the first loop of drop: Terminate messages sent
    joinIdx       \* the second loop of drop: the next worker to join

poolVars == <<size, mpc, result, channel, senderAlive, queue, workers, wstate,
              wjob, lock, sent, runs, termSent, joinIdx>>

\* The integrator, calculate_color, as the chain of its nested calls.
VARIABLES
    scene,        \* shapes: the objects, in list order
    cray,         \* ray of the innermost call
    depth,        \* depth of the innermost call
    depth0,       \* the depth the outermost call was made with
    crec,          \* the HitRecord of the innermost call
    idx,          \* the `for s in shapes` position of the innermost call
    tests,        \* how many times the innermost call has called hit()
    stack,        \* the callers waiting for their recursive call, innermost first
    cpc,          \* where the innermost call is
    value,        \* the Color the last finished call returned
    how,          \* which return statement produced `value`
    cruv           \* what the last Vec3::random_unit_vector() returned

colorVars == <<scene, cray, depth, depth0, crec, idx, tests, stack, cpc, value, how, cruv>>

\* A material, from its constructor to one call of scatter.
VARIABLES
    mctor,        \* which constructor: "Lambertian::new", "Metal::fuzzy", "Metal::shiny"
    fuzzArg,      \* the `fuzz` argument of Metal::fuzzy
    mat,          \* the material constructed
    mrec,         \* the HitRecord handed to scatter
    mray,         \* the ray_in handed to scatter
    mruv,         \* what Vec3::random_unit_vector() returned inside scatter
    mout,         \* the Option<Ray> scatter returned
    mst           \* "new", "built", "scattered"

matVars == <<mctor, fuzzArg, mat, mrec, mray, mruv, mout, mst>>

\* Image::new.
VARIABLES
    imgWidth,     \* the `width` argument
    imgAspect,    \* the `aspect_ratio` argument, as the fraction <<num, den>>
    image         \* the Image returned (width 0: not yet)

imgVars == <<imgWidth, imgAspect, image>>

\* calculate_image.
VARIABLES
    rseed,        \* which sampling sequence the random numbers follow
    rW,           \* image.width
    rH,           \* image.height
    ri,           \* how many pixels enumerate_pixels_mut() has yielded
    rk,           \* how many samples of the current pixel are added
    rcolor,       \* `color`, the sum of the samples of the current pixel
    buffer,       \* image_buffer: pixel <<x, y>> -> [u8; 3]
    writes,       \* pixel <<x, y>> -> how many times it was assigned
    rpc           \* "begin", "pixel", "sample", "done"

renderVars == <<rseed, rW, rH, ri, rk, rcolor, buffer, writes, rpc>>

\* The parallel render driver: one job per scanline, a result channel.
VARIABLES
    results,      \* the result channel: pixels [x, y, rgb] sent, not yet received
    prog          \* per job: how many pixels of its scanline it has sent

parVars == <<results, prog>>

\* Color::combine_samples and Color::get_u8 on one accumulated colour.
VARIABLES
    cmbSum,       \* the accumulated colour handed in (kept for reference)
    cmbSamples,   \* samples: u16
    cmbColor,     \* self
    cmbOut,       \* the [u8; 3] returned by get_u8, <<>> before
    cmbPc         \* "sum", "combined", "done"

cmbVars == <<cmbSum, cmbSamples, cmbColor, cmbOut, cmbPc>>

\* One call of Sphere::hit.
VARIABLES
    hSphere,      \* self
    hRay,         \* ray
    hTMin,        \* t_min
    hTMax,        \* t_max
    hRec0,        \* *rec when the call is made
    hRec,         \* *rec
    hOk,          \* the bool returned, "none" before
    hPc           \* "call", "returned"

hitVars == <<hSphere, hRay, hTMin, hTMax, hRec0, hRec, hOk, hPc>>

vars == <<poolVars, colorVars, matVars, imgVars, renderVars, parVars, cmbVars, hitVars>>

notPool == <<colorVars, matVars, imgVars, renderVars, parVars, cmbVars, hitVars>>
notColor == <<poolVars, matVars, imgVars, renderVars, parVars, cmbVars, hitVars>>
notMat == <<poolVars, colorVars, imgVars, renderVars, parVars, cmbVars, hitVars>>
notImg == <<poolVars, colorVars, matVars, renderVars, parVars, cmbVars, hitVars>>
notRender == <<poolVars, colorVars, matVars, imgVars, parVars, cmbVars, hitVars>>
notCmb == <<poolVars, colorVars, matVars, imgVars, renderVars, parVars, hitVars>>
notHit == <<poolVars, colorVars, matVars, imgVars, renderVars, parVars, cmbVars>>
notPar == <<colorVars, matVars, imgVars, cmbVars, hitVars>>

\* ------------------------------------------------------------ thread pool
WorkerIds == 0 .. (MaxSize - 1)
JobIds == 1 .. MaxJobs

\* enum Message { NewJob(Job), Terminate }
NewJob(j) == [type |-> "NewJob", job |-> j]
Terminate == [type |-> "Terminate", job |-> 0]

\* The Arc<Mutex<Receiver>> lives as long as some worker thread holds a clone.
ReceiverAlive == \E w \in WorkerIds : wstate[w] \in {"idle", "recv", "running"}

PoolFresh ==
    /\ mpc = "new"
    /\ result = "none"
    /\ channel = FALSE
    /\ senderAlive = FALSE
    /\ queue = <<>>
    /\ workers = <<>>
    /\ wstate = [w \in WorkerIds |-> "unspawned"]
    /\ wjob = [w \in WorkerIds |-> 0]
    /\ lock = {}
    /\ sent = 0
    /\ runs = [j \in JobIds |-> 0]
    /\ termSent = 0
    /\ joinIdx = 0

InitPool == size \in 0 .. MaxSize /\ PoolFresh

\* ThreadPool::new, up to the loop: the size test and the channel.
PoolNewZeroOk ==
    /\ UNCHANGED notPool
    /\ mpc = "new"
    /\ channel' = TRUE
    /\ senderAlive' = TRUE
    /\ mpc' = "spawn"
    /\ UNCHANGED <<size, result, queue, workers, wstate, wjob, lock, sent, runs,
                   termSent, joinIdx>>

PoolNew ==
    /\ UNCHANGED notPool
    /\ mpc = "new"
    /\ IF size > 0
         THEN /\ channel' = TRUE
              /\ senderAlive' = TRUE
              /\ mpc' = "spawn"
              /\ UNCHANGED result
         ELSE /\ result' = "Err"
              /\ mpc' = "err"
              /\ UNCHANGED <<channel, senderAlive>>
    /\ UNCHANGED <<size, queue, workers, wstate, wjob, lock, sent, runs,
                   termSent, joinIdx>>

\* Worker::new: spawns the thread and returns Worker { id, thread: Some(..) }.
WorkerNewOffByOne(id) ==
    /\ workers' = Append(workers, [id |-> id + 1, thread |-> TRUE])
    /\ wstate' = [wstate EXCEPT ![id] = "idle"]

WorkerNew(id) ==
    /\ workers' = Append(workers, [id |-> id, thread |-> TRUE])
    /\ wstate' = [wstate EXCEPT ![id] = "idle"]

\* ThreadPool::new, the loop `for id in 0..size` and the Ok it ends with.
PoolSpawn ==
    /\ UNCHANGED notPool
    /\ mpc = "spawn"
    /\ IF Len(workers) < size
         THEN /\ WorkerNew(Len(workers))
              /\ UNCHANGED <<mpc, result>>
         ELSE /\ result' = "Ok"
              /\ mpc' = "ready"
              /\ UNCHANGED <<workers, wstate>>
    /\ UNCHANGED <<size, channel, senderAlive, queue, wjob, lock, sent, runs,
                   termSent, joinIdx>>

\* ThreadPool::execute: boxes the closure and sends NewJob; the expect panics
\* when no receiver is left.
Execute ==
    /\ UNCHANGED notPool
    /\ mpc = "ready"
    /\ sent < MaxJobs
    /\ IF ReceiverAlive
         THEN /\ queue' = Append(queue, NewJob(sent + 1))
              /\ sent' = sent + 1
              /\ UNCHANGED mpc
         ELSE /\ mpc' = "panic"
              /\ UNCHANGED <<queue, sent>>
    /\ UNCHANGED <<size, result, channel, senderAlive, workers, wstate, wjob,
                   lock, runs, termSent, joinIdx>>

\* The worker's loop, `receiver.lock()`: the thread takes the Mutex.
WorkerLock(w) ==
    /\ UNCHANGED notPool
    /\ wstate[w] = "idle"
    /\ lock = {}
    /\ lock' = {w}
    /\ wstate' = [wstate EXCEPT ![w] = "recv"]
    /\ UNCHANGED <<size, mpc, result, channel, senderAlive, queue, workers,
                   wjob, sent, runs, termSent, joinIdx>>

\* `.recv()` under the lock, the end of the `let message` statement (the guard
\* is dropped) and the match: NewJob starts the job, Terminate breaks the
\* loop, a closed and empty channel makes the expect panic.
WorkerRecvKeepLock(w) ==
    /\ UNCHANGED notPool
    /\ wstate[w] = "recv"
    /\ queue # <<>>
    /\ queue' = Tail(queue)
    /\ IF Head(queue).type = "NewJob"
         THEN /\ wstate' = [wstate EXCEPT ![w] = "running"]
              /\ wjob' = [wjob EXCEPT ![w] = Head(queue).job]
         ELSE /\ wstate' = [wstate EXCEPT ![w] = "exited"]
              /\ UNCHANGED wjob
    /\ lock' = IF Head(queue).type = "NewJob" THEN lock ELSE {}
    /\ UNCHANGED <<size, mpc, result, channel, senderAlive, workers, sent,
                   runs, termSent, joinIdx>>

WorkerRecvNoPop(w) ==
    /\ UNCHANGED notPool
    /\ wstate[w] = "recv"
    /\ queue # <<>>
    /\ queue' = IF Head(queue).type = "NewJob" THEN queue ELSE Tail(queue)
    /\ IF Head(queue).type = "NewJob"
         THEN /\ wstate' = [wstate EXCEPT ![w] = "running"]
              /\ wjob' = [wjob EXCEPT ![w] = Head(queue).job]
         ELSE /\ wstate' = [wstate EXCEPT ![w] = "exited"]
              /\ UNCHANGED wjob
    /\ lock' = {}
    /\ UNCHANGED <<size, mpc, result, channel, senderAlive, workers, sent,
                   runs, termSent, joinIdx>>

WorkerRecvSkipsJob(w) ==
    /\ UNCHANGED notPool
    /\ wstate[w] = "recv"
    /\ queue # <<>>
    /\ queue' = Tail(queue)
    /\ wstate' = [wstate EXCEPT ![w] = IF Head(queue).type = "NewJob" THEN "idle"
                                                                     ELSE "exited"]
    /\ lock' = {}
    /\ UNCHANGED <<size, mpc, result, channel, senderAlive, workers, wjob, sent,
                   runs, termSent, joinIdx>>

\* The worker leaving its loop as soon as it finds the queue empty.
WorkerRecvExitsOnEmpty(w) ==
    /\ UNCHANGED notPool
    /\ wstate[w] = "recv"
    /\ IF queue # <<>>
         THEN /\ queue' = Tail(queue)
              /\ IF Head(queue).type = "NewJob"
                   THEN /\ wstate' = [wstate EXCEPT ![w] = "running"]
                        /\ wjob' = [wjob EXCEPT ![w] = Head(queue).job]
                   ELSE /\ wstate' = [wstate EXCEPT ![w] = "exited"]
                        /\ UNCHANGED wjob
         ELSE /\ wstate' = [wstate EXCEPT ![w] = "exited"]
              /\ UNCHANGED <<queue, wjob>>
    /\ lock' = {}
    /\ UNCHANGED <<size, mpc, result, channel, senderAlive, workers, sent,
                   runs, termSent, joinIdx>>

WorkerRecv(w) ==
    /\ UNCHANGED notPool
    /\ wstate[w] = "recv"
    /\ queue # <<>> \/ ~senderAlive
    /\ IF queue # <<>>
         THEN /\ queue' = Tail(queue)
              /\ IF Head(queue).type = "NewJob"
                   THEN /\ wstate' = [wstate EXCEPT ![w] = "running"]
                        /\ wjob' = [wjob EXCEPT ![w] = Head(queue).job]
                   ELSE /\ wstate' = [wstate EXCEPT ![w] = "exited"]
                        /\ UNCHANGED wjob
         ELSE /\ wstate' = [wstate EXCEPT ![w] = "panicked"]
              /\ UNCHANGED <<queue, wjob>>
    /\ lock' = {}
    /\ UNCHANGED <<size, mpc, result, channel, senderAlive, workers, sent,
                   runs, termSent, joinIdx>>

\* `job()` returns and the loop starts over.
WorkerFinish(w) ==
    /\ UNCHANGED notPool
    /\ wstate[w] = "running"
    /\ runs' = [runs EXCEPT ![wjob[w]] = @ + 1]
    /\ wjob' = [wjob EXCEPT ![w] = 0]
    /\ wstate' = [wstate EXCEPT ![w] = "idle"]
    /\ UNCHANGED <<size, mpc, result, channel, senderAlive, queue, workers,
                   lock, sent, termSent, joinIdx>>

\* The owner lets the pool go out of scope: Drop::drop starts.
DropBegin ==
    /\ UNCHANGED notPool
    /\ mpc = "ready"
    /\ mpc' = "drop_send"
    /\ termSent' = 0
    /\ UNCHANGED <<size, result, channel, senderAlive, queue, workers, wstate,
                   wjob, lock, sent, runs, joinIdx>>

\* drop, first loop: one Terminate per worker; the unwrap panics when no
\* receiver is left.
DropSendOneShort ==
    /\ UNCHANGED notPool
    /\ mpc = "drop_send"
    /\ IF termSent + 1 < Len(workers)
         THEN /\ queue' = Append(queue, Terminate)
              /\ termSent' = termSent + 1
              /\ UNCHANGED <<mpc, joinIdx>>
         ELSE /\ mpc' = "drop_join"
              /\ joinIdx' = 1
              /\ UNCHANGED <<queue, termSent>>
    /\ UNCHANGED <<size, result, channel, senderAlive, workers, wstate, wjob,
                   lock, sent, runs>>

DropSend ==
    /\ UNCHANGED notPool
    /\ mpc = "drop_send"
    /\ IF termSent < Len(workers)
         THEN IF ReceiverAlive
                THEN /\ queue' = Append(queue, Terminate)
                     /\ termSent' = termSent + 1
                     /\ UNCHANGED <<mpc, joinIdx>>
                ELSE /\ mpc' = "panic"
                     /\ UNCHANGED <<queue, termSent, joinIdx>>
         ELSE /\ mpc' = "drop_join"
              /\ joinIdx' = 1
              /\ UNCHANGED <<queue, termSent>>
    /\ UNCHANGED <<size, result, channel, senderAlive, workers, wstate, wjob,
                   lock, sent, runs>>

\* drop, second loop: take() each thread handle and join it (join returns once
\* the thread has ended; the unwrap panics when the thread panicked).  After
\* the loop the fields, the sender among them, are dropped.
DropJoin ==
    /\ UNCHANGED notPool
    /\ mpc = "drop_join"
    /\ IF joinIdx <= Len(workers)
         THEN /\ wstate[workers[joinIdx].id] \in {"exited", "panicked"}
              /\ workers' = [workers EXCEPT ![joinIdx].thread = FALSE]
              /\ IF wstate[workers[joinIdx].id] = "exited"
                   THEN /\ joinIdx' = joinIdx + 1
                        /\ UNCHANGED mpc
                   ELSE /\ mpc' = "panic"
                        /\ UNCHANGED joinIdx
              /\ UNCHANGED senderAlive
         ELSE /\ mpc' = "dropped"
              /\ senderAlive' = FALSE
              /\ UNCHANGED <<workers, joinIdx>>
    /\ UNCHANGED <<size, result, channel, queue, wstate, wjob, lock, sent,
                   runs, termSent>>

Owner == PoolNew \/ PoolSpawn \/ Execute \/ DropBegin \/ DropSend \/ DropJoin

Worker(w) == WorkerLock(w) \/ WorkerRecv(w) \/ WorkerFinish(w)

NextPool == Owner \/ \E w \in WorkerIds : Worker(w)


\* ------------------------------------------------------- f64 as fixed point
\* The integer n stands for the f64 value n / Unit.
Unit == 1000

Abs(x) == IF x < 0 THEN -x ELSE x

\* n / d rounded to the nearest integer (d > 0).
RDiv(n, d) == (2 * n + d) \div (2 * d)

\* f64 `*`, `/` and sqrt() on fixed-point values.
FMul(x, y) == RDiv(x * y, Unit)
FDiv(x, y) == IF y < 0 THEN RDiv((-x) * Unit, -y) ELSE RDiv(x * Unit, y)

RECURSIVE SqrtSearch(_, _, _)
SqrtSearch(n, lo, hi) ==
    IF lo >= hi THEN lo
    ELSE LET mid == (lo + hi + 1) \div 2
         IN IF mid * mid <= n THEN SqrtSearch(n, mid, hi)
                              ELSE SqrtSearch(n, lo, mid - 1)

FSqrt(x) == SqrtSearch(x * Unit, 0, 46340)

\* ------------------------------------------------------------------- Vec3
Vec3(x, y, z) == [x |-> x, y |-> y, z |-> z]
VZero == Vec3(0, 0, 0)
VAdd(a, b) == Vec3(a.x + b.x, a.y + b.y, a.z + b.z)
VSub(a, b) == Vec3(a.x - b.x, a.y - b.y, a.z - b.z)
VScale(k, v) == Vec3(FMul(k, v.x), FMul(k, v.y), FMul(k, v.z))
VDiv(v, k) == Vec3(FDiv(v.x, k), FDiv(v.y, k), FDiv(v.z, k))
Dot(a, b) == FMul(a.x, b.x) + FMul(a.y, b.y) + FMul(a.z, b.z)
LengthSquared(v) == FMul(v.x, v.x) + FMul(v.y, v.y) + FMul(v.z, v.z)
Length(v) == FSqrt(LengthSquared(v))
UnitVector(v) == VDiv(v, Length(v))
\* eps = 0.0000001 is below the fixed-point resolution: |c| < eps iff c = 0.
NearZero(v) == Abs(v.x) < 1 /\ Abs(v.y) < 1 /\ Abs(v.z) < 1

\* -------------------------------------------------------------------- Ray
Ray(origin, direction) == [origin |-> origin, direction |-> direction]
RayAt(r, t) == VAdd(r.origin, VScale(t, r.direction))
RayUnitVector(r) == VDiv(r.direction, Length(r.direction))

\* ------------------------------------------------------------------ Color
Color(r, g, b) == [r |-> r, g |-> g, b |-> b]
Black == Color(0, 0, 0)
White == Color(Unit, Unit, Unit)
Blue == Color(Unit \div 2, (7 * Unit) \div 10, Unit)
ColorMul(a, b) == Color(FMul(a.r, b.r), FMul(a.g, b.g), FMul(a.b, b.b))
ColorScale(k, c) == Color(FMul(k, c.r), FMul(k, c.g), FMul(k, c.b))
ColorAdd(a, b) == Color(a.r + b.r, a.g + b.g, a.b + b.b)

\* -------------------------------------------------------------- HitRecord
HitRecordNew == [point |-> VZero, normal |-> VZero, t |-> 0, front_face |-> TRUE]

\* ----------------------------------------------------------------- Sphere
Sphere(center, radius, material) ==
    [center |-> center, radius |-> radius, material |-> material]

\* Sphere::hit rejecting a root on the bounds too.
SphereHitOpen(s, ray, t_min, t_max, rec) ==
    LET oc == VSub(ray.origin, s.center)
        a == Dot(ray.direction, ray.direction)
        b == 2 * Dot(ray.direction, oc)
        c == Dot(oc, oc) - FMul(s.radius, s.radius)
        discriminant == FMul(b, b) - 4 * FMul(a, c)
    IN IF discriminant < 0 THEN [ok |-> FALSE, rec |-> rec]
       ELSE LET sq == FSqrt(discriminant)
                root1 == FDiv(-b - sq, 2 * a)
                root2 == FDiv(-b + sq, 2 * a)
                retry == root1 <= t_min \/ t_max <= root1
                root == IF retry THEN root2 ELSE root1
            IN IF retry /\ (root2 <= t_min \/ t_max <= root2)
                 THEN [ok |-> FALSE, rec |-> rec]
                 ELSE LET point == RayAt(ray, root)
                      IN [ok |-> TRUE,
                          rec |-> [rec EXCEPT !.t = root,
                                              !.point = point,
                                              !.normal = VDiv(VSub(point, s.center), s.radius)]]

\* Sphere::hit storing the root in the record before it is range-checked.
SphereHitWritesEarly(s, ray, t_min, t_max, rec) ==
    LET oc == VSub(ray.origin, s.center)
        a == Dot(ray.direction, ray.direction)
        b == 2 * Dot(ray.direction, oc)
        c == Dot(oc, oc) - FMul(s.radius, s.radius)
        discriminant == FMul(b, b) - 4 * FMul(a, c)
    IN IF discriminant < 0 THEN [ok |-> FALSE, rec |-> rec]
       ELSE LET sq == FSqrt(discriminant)
                root1 == FDiv(-b - sq, 2 * a)
                root2 == FDiv(-b + sq, 2 * a)
                retry == root1 < t_min \/ t_max < root1
                root == IF retry THEN root2 ELSE root1
            IN IF retry /\ (root2 < t_min \/ t_max < root2)
                 THEN [ok |-> FALSE, rec |-> [rec EXCEPT !.t = root]]
                 ELSE LET point == RayAt(ray, root)
                      IN [ok |-> TRUE,
                          rec |-> [rec EXCEPT !.t = root,
                                              !.point = point,
                                              !.normal = VDiv(VSub(point, s.center), s.radius)]]

\* Sphere::hit: [ok |-> the bool returned, rec |-> the record afterwards].
SphereHit(s, ray, t_min, t_max, rec) ==
    LET oc == VSub(ray.origin, s.center)
        a == Dot(ray.direction, ray.direction)
        b == 2 * Dot(ray.direction, oc)
        c == Dot(oc, oc) - FMul(s.radius, s.radius)
        discriminant == FMul(b, b) - 4 * FMul(a, c)
    IN IF discriminant < 0 THEN [ok |-> FALSE, rec |-> rec]
       ELSE LET sq == FSqrt(discriminant)
                root1 == FDiv(-b - sq, 2 * a)
                root2 == FDiv(-b + sq, 2 * a)
                retry == root1 < t_min \/ t_max < root1
                root == IF retry THEN root2 ELSE root1
            IN IF retry /\ (root2 < t_min \/ t_max < root2)
                 THEN [ok |-> FALSE, rec |-> rec]
                 ELSE LET point == RayAt(ray, root)
                      IN [ok |-> TRUE,
                          rec |-> [rec EXCEPT !.t = root,
                                              !.point = point,
                                              !.normal = VDiv(VSub(point, s.center), s.radius)]]

\* --------------------------------------------------------------- Material
Lambertian(albedo) == [kind |-> "Lambertian", albedo |-> albedo, fuzz |-> 0]

\* Metal::fuzzy: `if fuzz < 1. { fuzz } else { 1. }`.
MetalFuzzy(albedo, fuzz) ==
    [kind |-> "Metal", albedo |-> albedo, fuzz |-> IF fuzz < Unit THEN fuzz ELSE Unit]

MetalShiny(albedo) == [kind |-> "Metal", albedo |-> albedo, fuzz |-> 0]

\* An Option<Ray>.
Some(r) == [some |-> TRUE, ray |-> r]
None == [some |-> FALSE, ray |-> Ray(VZero, VZero)]

\* Lambertian::scatter; ruv is what Vec3::random_unit_vector() returned.
LambertianScatter(m, rec, ray_in, ruv) ==
    LET direction == VAdd(rec.normal, ruv)
    IN Some(Ray(rec.point, IF NearZero(direction) THEN rec.normal ELSE direction))

Reflect(v, normal) == VSub(v, VScale(2 * Dot(v, normal), normal))

\* Metal::scatter.
MetalScatterGe(m, rec, ray_in, ruv) ==
    LET reflected == Reflect(UnitVector(ray_in.direction), rec.normal)
        scattered == Ray(rec.point, VAdd(reflected, VScale(m.fuzz, ruv)))
    IN IF Dot(scattered.direction, rec.normal) >= 0 THEN Some(scattered) ELSE None

MetalScatter(m, rec, ray_in, ruv) ==
    LET reflected == Reflect(UnitVector(ray_in.direction), rec.normal)
        scattered == Ray(rec.point, VAdd(reflected, VScale(m.fuzz, ruv)))
    IN IF Dot(scattered.direction, rec.normal) > 0 THEN Some(scattered) ELSE None

\* `impl Material for Sphere`: dispatch on the boxed material.
Scatter(s, rec, ray_in, ruv) ==
    IF s.material.kind = "Lambertian"
      THEN LambertianScatter(s.material, rec, ray_in, ruv)
      ELSE MetalScatter(s.material, rec, ray_in, ruv)

Attenuation(s) == s.material.albedo

\* ------------------------------------------------------------- integrator
\* const INFINITY: f64 = f64::MAX, above every root the model can compute.
INFINITY == 2000000
\* The t_min calculate_color hands to hit(): 0.001.
TMin == Unit \div 1000

\* The objects a scene is made of, and the scenes: every ordering of every
\* choice of at most MaxScene of them.
Shapes ==
    << Sphere(Vec3(0, 0, -Unit), Unit \div 2,
              Lambertian(Color((7 * Unit) \div 10, (7 * Unit) \div 10, (3 * Unit) \div 10))),
       Sphere(Vec3(0, 0, -3 * Unit), Unit,
              MetalFuzzy(Color((8 * Unit) \div 10, (8 * Unit) \div 10, (8 * Unit) \div 10), Unit)),
       Sphere(Vec3(0, 2 * Unit, (3 * Unit) \div 2), Unit \div 2,
              MetalShiny(Color((9 * Unit) \div 10, (6 * Unit) \div 10, Unit \div 10))) >>

Orderings ==
    UNION { { f \in [1 .. n -> DOMAIN Shapes] : \A i, j \in 1 .. n : i # j => f[i] # f[j] }
            : n \in 0 .. MaxScene }

Scenes == { [i \in DOMAIN f |-> Shapes[f[i]]] : f \in Orderings }

Rays ==
    { Ray(VZero, Vec3(0, 0, -Unit)),
      Ray(VZero, Vec3(0, 0, -2 * Unit)),
      Ray(VZero, Vec3(0, Unit, 0)),
      Ray(Vec3(0, 0, -Unit), Vec3(0, 0, -Unit)) }

\* The values Vec3::random_unit_vector() is taken to return.
RandomUnitVectors ==
    { Vec3(0, 0, Unit), Vec3(0, 0, -Unit), Vec3(Unit, 0, 0), Vec3(0, Unit, 0) }

ColorFresh ==
    /\ crec = HitRecordNew
    /\ idx = 0
    /\ tests = 0
    /\ stack = <<>>
    /\ value = Black
    /\ how = "none"
    /\ cruv = VZero

InitColor ==
    /\ scene \in Scenes
    /\ cray \in Rays
    /\ depth \in 0 .. MaxDepth
    /\ depth0 = depth
    /\ cpc = "call"
    /\ ColorFresh

ColorIdle ==
    /\ scene = <<>>
    /\ cray = Ray(VZero, VZero)
    /\ depth = 0
    /\ depth0 = 0
    /\ cpc = "idle"
    /\ ColorFresh

\* generate_background_color
GenerateBackgroundColor(r) ==
    LET unit_direction == RayUnitVector(r)
        t == RDiv(unit_direction.y + Unit, 2)
    IN ColorAdd(ColorScale(Unit - t, White), ColorScale(t, Blue))

\* calculate_color, its entry: `if depth <= 0 { return Color::black(); }`,
\* else a fresh HitRecord and the start of the loop over the shapes.
ColorCallDepthBelowZero ==
    /\ UNCHANGED notColor
    /\ cpc = "call"
    /\ IF depth < 0
         THEN /\ value' = Black
              /\ how' = "depth"
              /\ cpc' = "ret"
              /\ UNCHANGED <<crec, idx, tests>>
         ELSE /\ crec' = HitRecordNew
              /\ idx' = 1
              /\ tests' = 0
              /\ cpc' = "scan"
              /\ UNCHANGED <<value, how>>
    /\ UNCHANGED <<depth0, scene, cray, depth, stack, cruv>>

ColorCall ==
    /\ UNCHANGED notColor
    /\ cpc = "call"
    /\ IF depth <= 0
         THEN /\ value' = Black
              /\ how' = "depth"
              /\ cpc' = "ret"
              /\ UNCHANGED <<crec, idx, tests>>
         ELSE /\ crec' = HitRecordNew
              /\ idx' = 1
              /\ tests' = 0
              /\ cpc' = "scan"
              /\ UNCHANGED <<value, how>>
    /\ UNCHANGED <<depth0, scene, cray, depth, stack, cruv>>

\* calculate_color, one turn of `for s in shapes`: s.hit(&ray, 0.001,
\* INFINITY, &mut crec); after the last shape, the background.
ColorScan ==
    /\ UNCHANGED notColor
    /\ cpc = "scan"
    /\ IF idx <= Len(scene)
         THEN LET h == SphereHit(scene[idx], cray, TMin, INFINITY, crec)
              IN /\ crec' = h.rec
                 /\ tests' = tests + 1
                 /\ IF h.ok THEN cpc' = "hit" /\ UNCHANGED idx
                            ELSE idx' = idx + 1 /\ UNCHANGED cpc
                 /\ UNCHANGED <<value, how>>
         ELSE /\ value' = GenerateBackgroundColor(cray)
              /\ how' = "background"
              /\ cpc' = "ret"
              /\ UNCHANGED <<crec, idx, tests>>
    /\ UNCHANGED <<depth0, scene, cray, depth, stack, cruv>>

\* The recursive call made with the caller's own depth.
ColorScatterRecurseSameDepth ==
    /\ UNCHANGED notColor
    /\ cpc = "hit"
    /\ \E v \in RandomUnitVectors :
          LET sc == Scatter(scene[idx], crec, cray, v)
          IN /\ sc.some
             /\ cruv' = v
             /\ stack' = <<[atten |-> Attenuation(scene[idx]), idx |-> idx,
                            tests |-> tests]>> \o stack
             /\ cray' = sc.ray
             /\ depth' = depth
             /\ cpc' = "call"
    /\ idx' = 0
    /\ tests' = 0
    /\ UNCHANGED <<depth0, scene, crec, value, how>>

\* calculate_color, the body of the `if s.hit(..)`: the shape scatters the ray
\* and the function calls itself with the new ray and depth - 1; the caller
\* waits with s.absorption() to multiply the result by.
ColorScatterRecurse ==
    /\ UNCHANGED notColor
    /\ cpc = "hit"
    /\ \E v \in RandomUnitVectors :
          LET sc == Scatter(scene[idx], crec, cray, v)
          IN /\ sc.some
             /\ cruv' = v
             /\ stack' = <<[atten |-> Attenuation(scene[idx]), idx |-> idx,
                            tests |-> tests]>> \o stack
             /\ cray' = sc.ray
             /\ depth' = depth - 1
             /\ cpc' = "call"
    /\ idx' = 0
    /\ tests' = 0
    /\ UNCHANGED <<depth0, scene, crec, value, how>>

\* The integrator when scatter yields no outgoing ray: it returns black.
ColorScatterAbsorbedAsBackground ==
    /\ UNCHANGED notColor
    /\ cpc = "hit"
    /\ \E v \in RandomUnitVectors :
          /\ ~Scatter(scene[idx], crec, cray, v).some
          /\ cruv' = v
    /\ value' = GenerateBackgroundColor(cray)
    /\ how' = "absorbed"
    /\ cpc' = "ret"
    /\ UNCHANGED <<depth0, scene, cray, depth, crec, idx, tests, stack>>

ColorScatterAbsorbed ==
    /\ UNCHANGED notColor
    /\ cpc = "hit"
    /\ \E v \in RandomUnitVectors :
          /\ ~Scatter(scene[idx], crec, cray, v).some
          /\ cruv' = v
    /\ value' = Black
    /\ how' = "absorbed"
    /\ cpc' = "ret"
    /\ UNCHANGED <<depth0, scene, cray, depth, crec, idx, tests, stack>>

\* A call returns: the outermost one ends the computation, an inner one hands
\* its Color to the caller, which returns s.absorption() * that Color.
ColorReturn ==
    /\ UNCHANGED notColor
    /\ cpc = "ret"
    /\ IF stack = <<>>
         THEN /\ cpc' = "done"
              /\ UNCHANGED <<value, how, depth, idx, tests, stack>>
         ELSE /\ value' = ColorMul(Head(stack).atten, value)
              /\ how' = "product"
              /\ depth' = depth + 1
              /\ idx' = Head(stack).idx
              /\ tests' = Head(stack).tests
              /\ stack' = Tail(stack)
              /\ UNCHANGED cpc
    /\ UNCHANGED <<depth0, scene, cray, crec, cruv>>

NextColor ==
    ColorCall \/ ColorScan \/ ColorScatterRecurse \/ ColorScatterAbsorbed \/ ColorReturn

\* ------------------------------------------------ materials, one at a time
Albedo == Color((8 * Unit) \div 10, (6 * Unit) \div 10, (2 * Unit) \div 10)

\* The `fuzz` arguments tried: -2, -0.5, 0, 0.5, 1, 1.5, 3.
FuzzArgs ==
    { -2 * Unit, -(Unit \div 2), 0, Unit \div 2, Unit, (3 * Unit) \div 2, 3 * Unit }

\* Hit records as Sphere::hit leaves them: a point and a unit normal.
HitRecords ==
    { [HitRecordNew EXCEPT !.point = p, !.normal = n, !.t = Unit] :
        p \in { Vec3(0, 0, -(Unit \div 2)), Vec3(Unit, 2 * Unit, -3 * Unit) },
        n \in { Vec3(0, 0, Unit), Vec3(0, Unit, 0),
                Vec3(0, (6 * Unit) \div 10, (8 * Unit) \div 10) } }

\* Incoming rays: towards the surface, grazing, not normalized, from inside.
InRays ==
    { Ray(VZero, dir) :
        dir \in { Vec3(0, 0, -Unit), Vec3(0, 0, -2 * Unit), Vec3(0, -Unit, -Unit),
                  Vec3(Unit, 0, 0), Vec3(0, 0, Unit) } }

NoMaterial == [kind |-> "none", albedo |-> Black, fuzz |-> 0]

MatFresh ==
    /\ mat = NoMaterial
    /\ mruv = VZero
    /\ mout = None
    /\ mst = "new"

InitMat ==
    /\ mctor \in {"Lambertian::new", "Metal::fuzzy", "Metal::shiny"}
    /\ fuzzArg \in (IF mctor = "Metal::fuzzy" THEN FuzzArgs ELSE {0})
    /\ mrec \in HitRecords
    /\ mray \in InRays
    /\ MatFresh

MatIdle ==
    /\ mctor = "none"
    /\ fuzzArg = 0
    /\ mrec = HitRecordNew
    /\ mray = Ray(VZero, VZero)
    /\ MatFresh

\* Lambertian::new, Metal::fuzzy or Metal::shiny.
MaterialNew ==
    /\ UNCHANGED notMat
    /\ mst = "new"
    /\ mat' = CASE mctor = "Lambertian::new" -> Lambertian(Albedo)
                [] mctor = "Metal::fuzzy" -> MetalFuzzy(Albedo, fuzzArg)
                [] OTHER -> MetalShiny(Albedo)
    /\ mst' = "built"
    /\ UNCHANGED <<mctor, fuzzArg, mrec, mray, mruv, mout>>

\* Material::scatter on the material built.
MaterialScatter ==
    /\ UNCHANGED notMat
    /\ mst = "built"
    /\ \E v \in RandomUnitVectors :
          /\ mruv' = v
          /\ mout' = IF mat.kind = "Lambertian"
                       THEN LambertianScatter(mat, mrec, mray, v)
                       ELSE MetalScatter(mat, mrec, mray, v)
    /\ mst' = "scattered"
    /\ UNCHANGED <<mctor, fuzzArg, mat, mrec, mray>>

NextMat == MaterialNew \/ MaterialScatter

\* ------------------------------------------------------------------ Image
\* The aspect ratios tried, as fractions <<num, den>>: 16/9, 1, 2, 3, 3/2,
\* 4/3, 1/2, 7/3.
AspectRatios ==
    { <<16, 9>>, <<1, 1>>, <<2, 1>>, <<3, 1>>, <<3, 2>>, <<4, 3>>, <<1, 2>>, <<7, 3>> }

Widths == (1 .. MaxWidth) \cup {400}

NoImage == [aspect_ratio |-> <<1, 1>>, width |-> 0, height |-> 0]

\* `x as u32` for the non-negative f64 num / den: the fractional part is
\* dropped.  (The quotients of the model stay far below u32::MAX.)
AsU32(num, den) == num \div den

\* Image::new: height = (width as f64 / aspect_ratio) as u32.
ImageNewRounded(width, aspect_ratio) ==
    [aspect_ratio |-> aspect_ratio,
     width |-> width,
     height |-> AsU32(2 * width * aspect_ratio[2] + aspect_ratio[1],
                      2 * aspect_ratio[1])]

ImageNew(width, aspect_ratio) ==
    [aspect_ratio |-> aspect_ratio,
     width |-> width,
     height |-> AsU32(width * aspect_ratio[2], aspect_ratio[1])]

InitImg ==
    /\ imgWidth \in Widths
    /\ imgAspect \in AspectRatios
    /\ image = NoImage

ImgIdle ==
    /\ imgWidth = 0
    /\ imgAspect = <<1, 1>>
    /\ image = NoImage

\* run(): `let image = Image::new(width, aspect_ratio)`.
RunImageNew ==
    /\ UNCHANGED notImg
    /\ image = NoImage
    /\ image' = ImageNew(imgWidth, imgAspect)
    /\ UNCHANGED <<imgWidth, imgAspect>>

NextImg == RunImageNew

\* ------------------------------------------------------- sample combining
\* clamp
Clamp(x, min, max) == IF x < min THEN min ELSE IF x > max THEN max ELSE x

\* Color::add_sample
AddSample(c, sample) == Color(c.r + sample.r, c.g + sample.g, c.b + sample.b)

\* combine_samples without the clamp.
CombineChannelNoClamp(x, scale) == 256 * FSqrt(FMul(x, scale))

\* Color::combine_samples: scale, sqrt, then 256.0 * clamp(_, 0.0, 0.999).
CombineChannel(x, scale) == 256 * Clamp(FSqrt(FMul(x, scale)), 0, (999 * Unit) \div 1000)

CombineSamples(c, samples) ==
    LET scale == FDiv(Unit, samples * Unit)
    IN Color(CombineChannel(c.r, scale), CombineChannel(c.g, scale),
             CombineChannel(c.b, scale))

\* `x as u8` on an f64: the fraction is dropped, the result kept in 0 ..= 255.
AsU8(x) == Clamp(x \div Unit, 0, 255)

\* Color::get_u8
GetU8(c) == <<AsU8(c.r), AsU8(c.g), AsU8(c.b)>>

\* Accumulated channel sums: nothing, parts of one sample, several samples,
\* and sums far beyond what one pixel's samples of a lit scene give.
ChannelSums == {0, 250, 1000, 2700, 12250, 1000000}

CmbFresh ==
    /\ cmbColor = cmbSum
    /\ cmbOut = <<>>
    /\ cmbPc = "sum"

InitCmb ==
    /\ cmbSum \in {Color(r, g, b) : r \in ChannelSums, g \in ChannelSums, b \in ChannelSums}
    /\ cmbSamples \in 1 .. MaxSamples
    /\ CmbFresh

CmbIdle ==
    /\ cmbSum = Black
    /\ cmbSamples = 1
    /\ CmbFresh

\* color.combine_samples(samples)
CmbCombine ==
    /\ UNCHANGED notCmb
    /\ cmbPc = "sum"
    /\ cmbColor' = CombineSamples(cmbColor, cmbSamples)
    /\ cmbPc' = "combined"
    /\ UNCHANGED <<cmbSum, cmbSamples, cmbOut>>

\* color.get_u8()
CmbGetU8 ==
    /\ UNCHANGED notCmb
    /\ cmbPc = "combined"
    /\ cmbOut' = GetU8(cmbColor)
    /\ cmbPc' = "done"
    /\ UNCHANGED <<cmbSum, cmbSamples, cmbColor>>

NextCmb ==
    \/ CmbCombine
    \/ CmbGetU8

\* ------------------------------------------------------------ Sphere::hit
\* Rays that cross a sphere twice, start inside one, or miss.
HitRays == Rays \cup { Ray(Vec3(0, 0, -3 * Unit), Vec3(0, 0, -Unit)) }

\* Bounds below, on, between and above the roots these rays have.
HitBounds == { TMin, Unit, 2 * Unit, 3 * Unit, 4 * Unit, INFINITY }

\* Records as a caller hands them in: fresh, or left by an earlier hit.
HitRecordsIn ==
    { HitRecordNew,
      [HitRecordNew EXCEPT !.point = Vec3(0, 0, -(Unit \div 2)),
                           !.normal = Vec3(0, 0, Unit),
                           !.t = Unit \div 2] }

HitFresh ==
    /\ hRec = hRec0
    /\ hOk = "none"
    /\ hPc = "call"

InitHit ==
    /\ hSphere \in {Shapes[i] : i \in 1 .. MaxHitShapes}
    /\ hRay \in HitRays
    /\ hTMin \in HitBounds
    /\ hTMax \in HitBounds
    /\ hTMin <= hTMax
    /\ hRec0 \in HitRecordsIn
    /\ HitFresh

HitIdle ==
    /\ hSphere = Shapes[1]
    /\ hRay = Ray(VZero, VZero)
    /\ hTMin = TMin
    /\ hTMax = INFINITY
    /\ hRec0 = HitRecordNew
    /\ HitFresh

\* shape.hit(&ray, t_min, t_max, &mut rec)
HitCall ==
    /\ UNCHANGED notHit
    /\ hPc = "call"
    /\ LET h == SphereHit(hSphere, hRay, hTMin, hTMax, hRec)
       IN /\ hOk' = h.ok
          /\ hRec' = h.rec
    /\ hPc' = "returned"
    /\ UNCHANGED <<hSphere, hRay, hTMin, hTMax, hRec0>>

NextHit == HitCall

\* -------------------------------------------------------- calculate_image
\* What calculate_color returns for sample k of pixel (x, y): the random
\* numbers are taken from a fixed sequence, chosen by `seed`.
SampleColor(seed, x, y, k) ==
    Color((((x + seed) % 3) * Unit) \div 2,
          (((y + k) % 3) * Unit) \div 2,
          ((x + y + k + seed) % 2) * 2 * Unit)

Pixels(w, h) == (0 .. (w - 1)) \X (0 .. (h - 1))

NoBuffer == [p \in {} |-> 0]

RenderFresh ==
    /\ ri = 0
    /\ rk = 0
    /\ rcolor = Black
    /\ buffer = NoBuffer
    /\ writes = NoBuffer

InitRender ==
    /\ rseed \in 0 .. 2
    /\ rW \in 1 .. MaxW
    /\ rH \in 0 .. MaxH
    /\ rpc = "begin"
    /\ RenderFresh

RenderIdle ==
    /\ rseed = 0
    /\ rW = 0
    /\ rH = 0
    /\ rpc = "idle"
    /\ RenderFresh

\* image::ImageBuffer::new(image.width, image.height): every pixel zero.
RenderBegin ==
    /\ UNCHANGED notRender
    /\ rpc = "begin"
    /\ buffer' = [p \in Pixels(rW, rH) |-> <<0, 0, 0>>]
    /\ writes' = [p \in Pixels(rW, rH) |-> 0]
    /\ ri' = 0
    /\ rpc' = "pixel"
    /\ UNCHANGED <<rseed, rW, rH, rk, rcolor>>

\* `for (x, y, pixel) in image_buffer.enumerate_pixels_mut()`: the next pixel
\* (rows from the top, each from the left) with `color` black, or the end of
\* the loop and the return of image_buffer.
RenderNextPixel ==
    /\ UNCHANGED notRender
    /\ rpc = "pixel"
    /\ IF ri < rW * rH
         THEN /\ rcolor' = Black
              /\ rk' = 0
              /\ rpc' = "sample"
         ELSE /\ rpc' = "done"
              /\ UNCHANGED <<rcolor, rk>>
    /\ UNCHANGED <<rseed, rW, rH, ri, buffer, writes>>

\* One turn of `for _ in 0..SAMPLES_PER_PIXEL`: color.add_sample(sample_color).
RenderSample ==
    /\ UNCHANGED notRender
    /\ rpc = "sample"
    /\ rk < SamplesPerPixel
    /\ rcolor' = AddSample(rcolor, SampleColor(rseed, ri % rW, ri \div rW, rk))
    /\ rk' = rk + 1
    /\ UNCHANGED <<rseed, rW, rH, ri, buffer, writes, rpc>>

\* color.combine_samples(SAMPLES_PER_PIXEL); *pixel = image::Rgb(color.get_u8()).
RenderWriteSkipsLast ==
    /\ UNCHANGED notRender
    /\ rpc = "sample"
    /\ rk = SamplesPerPixel
    /\ buffer' = [buffer EXCEPT ![<<ri % rW, ri \div rW>>] =
                      GetU8(CombineSamples(rcolor, SamplesPerPixel))]
    /\ writes' = [writes EXCEPT ![<<ri % rW, ri \div rW>>] = @ + 1]
    /\ ri' = IF ri + 2 = rW * rH THEN ri + 2 ELSE ri + 1
    /\ rpc' = "pixel"
    /\ UNCHANGED <<rseed, rW, rH, rk, rcolor>>

RenderWrite ==
    /\ UNCHANGED notRender
    /\ rpc = "sample"
    /\ rk = SamplesPerPixel
    /\ buffer' = [buffer EXCEPT ![<<ri % rW, ri \div rW>>] =
                      GetU8(CombineSamples(rcolor, SamplesPerPixel))]
    /\ writes' = [writes EXCEPT ![<<ri % rW, ri \div rW>>] = @ + 1]
    /\ ri' = ri + 1
    /\ rpc' = "pixel"
    /\ UNCHANGED <<rseed, rW, rH, rk, rcolor>>

NextRender == RenderBegin \/ RenderNextPixel \/ RenderSample \/ RenderWrite

\* -------------------------------------------------- parallel render driver
\* The sum of the first k samples of pixel (x, y), and the pixel they give.
RECURSIVE SampleSum(_, _, _, _)
SampleSum(seed, x, y, k) ==
    IF k = 0 THEN Black
    ELSE AddSample(SampleSum(seed, x, y, k - 1), SampleColor(seed, x, y, k - 1))

PixelValue(seed, x, y) ==
    GetU8(CombineSamples(SampleSum(seed, x, y, SamplesPerPixel), SamplesPerPixel))

ParFresh ==
    /\ results = <<>>
    /\ prog = [j \in JobIds |-> 0]

ParIdle == ParFresh

InitPar ==
    /\ size \in 1 .. MaxSize
    /\ PoolFresh
    /\ rseed = 1
    /\ rW \in 1 .. MaxW
    /\ rH \in 1 .. (IF MaxH < MaxJobs THEN MaxH ELSE MaxJobs)
    /\ rpc = "begin"
    /\ RenderFresh
    /\ ParFresh

\* A sender of the result channel is left: a job closure not yet finished
\* (queued or running) holds a clone.
SendersAlive ==
    \/ \E i \in 1 .. Len(queue) : queue[i].type = "NewJob"
    \/ \E w \in WorkerIds : wstate[w] = "running"

\* The pool is there: the image buffer and the result channel are created.
ParBegin ==
    /\ UNCHANGED <<poolVars, notPar>>
    /\ rpc = "begin"
    /\ mpc = "ready"
    /\ buffer' = [p \in Pixels(rW, rH) |-> <<0, 0, 0>>]
    /\ writes' = [p \in Pixels(rW, rH) |-> 0]
    /\ rpc' = "submit"
    /\ UNCHANGED <<rseed, rW, rH, ri, rk, rcolor, parVars>>

\* One scanline is handed to the pool: job y + 1 renders row y.
ParSubmit ==
    /\ rpc = "submit"
    /\ sent < rH
    /\ Execute

\* All scanlines are enqueued: the coordinator drops its own sender.
ParCloseTx ==
    /\ UNCHANGED <<poolVars, notPar>>
    /\ rpc = "submit"
    /\ sent = rH
    /\ rpc' = "drain"
    /\ UNCHANGED <<rseed, rW, rH, ri, rk, rcolor, buffer, writes, parVars>>

\* A running job computes the next pixel of its row and sends it, with its
\* coordinates, to the coordinator.
ParJobStep(w) ==
    /\ UNCHANGED <<poolVars, notPar, renderVars>>
    /\ wstate[w] = "running"
    /\ prog[wjob[w]] < rW
    /\ results' = Append(results,
                         [x |-> prog[wjob[w]], y |-> wjob[w] - 1,
                          rgb |-> PixelValue(rseed, prog[wjob[w]], wjob[w] - 1)])
    /\ prog' = [prog EXCEPT ![wjob[w]] = @ + 1]

\* The job has sent its whole row: the closure returns.
ParJobFinish(w) ==
    /\ wstate[w] = "running"
    /\ prog[wjob[w]] = rW
    /\ WorkerFinish(w)

\* The coordinator receives one pixel and writes it where its coordinates say.
ParDrainSwapped ==
    /\ UNCHANGED <<poolVars, notPar>>
    /\ rpc = "drain"
    /\ results # <<>>
    /\ buffer' = [buffer EXCEPT ![<<Head(results).y % rW, Head(results).x % rH>>] =
                      Head(results).rgb]
    /\ writes' = [writes EXCEPT ![<<Head(results).y % rW, Head(results).x % rH>>] = @ + 1]
    /\ results' = Tail(results)
    /\ UNCHANGED <<rseed, rW, rH, ri, rk, rcolor, rpc, prog>>

ParDrain ==
    /\ UNCHANGED <<poolVars, notPar>>
    /\ rpc = "drain"
    /\ results # <<>>
    /\ buffer' = [buffer EXCEPT ![<<Head(results).x, Head(results).y>>] =
                      Head(results).rgb]
    /\ writes' = [writes EXCEPT ![<<Head(results).x, Head(results).y>>] = @ + 1]
    /\ results' = Tail(results)
    /\ UNCHANGED <<rseed, rW, rH, ri, rk, rcolor, rpc, prog>>

\* Every sender is gone and the channel is empty: the receive loop ends.
ParDrainEnd ==
    /\ UNCHANGED <<poolVars, notPar>>
    /\ rpc = "drain"
    /\ results = <<>>
    /\ ~SendersAlive
    /\ rpc' = "done"
    /\ UNCHANGED <<rseed, rW, rH, ri, rk, rcolor, buffer, writes, parVars>>

\* The image is complete; the pool goes out of scope.
ParDrop ==
    /\ rpc = "done"
    /\ DropBegin

NextPar ==
    \/ PoolNew
    \/ PoolSpawn
    \/ ParBegin
    \/ ParSubmit
    \/ ParCloseTx
    \/ \E w \in WorkerIds : WorkerLock(w)
    \/ \E w \in WorkerIds : WorkerRecv(w)
    \/ \E w \in WorkerIds : ParJobStep(w)
    \/ \E w \in WorkerIds : ParJobFinish(w)
    \/ ParDrain
    \/ ParDrainEnd
    \/ ParDrop
    \/ DropSend
    \/ DropJoin

\* --------------------------------------------------------- specifications
InitSpecPool == InitPool /\ ColorIdle /\ MatIdle /\ ImgIdle /\ RenderIdle /\ ParIdle /\ CmbIdle /\ HitIdle

SpecPool == InitSpecPool /\ [][NextPool]_vars

\* The scheduler runs every thread that can take a step.
FairSpecPool ==
    /\ SpecPool
    /\ WF_vars(Owner)
    /\ \A w \in WorkerIds : WF_vars(Worker(w))

PoolIdle == size = 0 /\ PoolFresh

InitSpecColor == InitColor /\ PoolIdle /\ MatIdle /\ ImgIdle /\ RenderIdle /\ ParIdle /\ CmbIdle /\ HitIdle

SpecColor == InitSpecColor /\ [][NextColor]_vars

InitSpecMat == InitMat /\ PoolIdle /\ ColorIdle /\ ImgIdle /\ RenderIdle /\ ParIdle /\ CmbIdle /\ HitIdle

SpecMat == InitSpecMat /\ [][NextMat]_vars

InitSpecImg == InitImg /\ PoolIdle /\ ColorIdle /\ MatIdle /\ RenderIdle /\ ParIdle /\ CmbIdle /\ HitIdle

SpecImg == InitSpecImg /\ [][NextImg]_vars

InitSpecRender == InitRender /\ PoolIdle /\ ColorIdle /\ MatIdle /\ ImgIdle /\ ParIdle /\ CmbIdle /\ HitIdle

SpecRender == InitSpecRender /\ [][NextRender]_vars

InitSpecPar == InitPar /\ ColorIdle /\ MatIdle /\ ImgIdle /\ CmbIdle /\ HitIdle

SpecPar == InitSpecPar /\ [][NextPar]_vars

InitSpecCmb == InitCmb /\ PoolIdle /\ ColorIdle /\ MatIdle /\ ImgIdle /\ RenderIdle /\ ParIdle /\ HitIdle

SpecCmb == InitSpecCmb /\ [][NextCmb]_vars

InitSpecHit == InitHit /\ PoolIdle /\ ColorIdle /\ MatIdle /\ ImgIdle /\ RenderIdle /\ ParIdle /\ CmbIdle

SpecHit == InitSpecHit /\ [][NextHit]_vars

\* ------------------------------------------------------------------ claims

\* C1: pool shutdown loses no work and does not deadlock: no job ever runs
\* twice and, under fair scheduling, once ThreadPool::new has returned Ok the
\* pool ends dropped with every submitted job run exactly once, every worker
\* out of its loop and every worker thread joined.
PoolShutDown ==
    /\ mpc = "dropped"
    /\ \A j \in JobIds : runs[j] = (IF j <= sent THEN 1 ELSE 0)
    /\ \A w \in WorkerIds : w < size => wstate[w] = "exited"
    /\ Len(workers) = size
    /\ \A i \in 1 .. Len(workers) : workers[i].thread = FALSE

C1_ShutdownLosesNoWork ==
    /\ [](\A j \in JobIds : runs[j] <= 1)
    /\ [](mpc # "panic")
    /\ (result = "Ok") ~> PoolShutDown

C1_Witness ==
    /\ PoolShutDown
    /\ size >= 2
    /\ sent >= 2

\* C2: ThreadPool::new(0) returns Err without creating a channel or a worker
\* and without a panic; ThreadPool::new(size > 0) returns Ok with exactly
\* `size` workers whose ids are 0 .. size-1.
C2_NewContract ==
    /\ mpc # "new" /\ size = 0 =>
          /\ result = "Err"
          /\ mpc = "err"
          /\ ~channel
          /\ workers = <<>>
          /\ \A w \in WorkerIds : wstate[w] = "unspawned"
    /\ size > 0 => result # "Err"
    /\ result = "Ok" =>
          /\ size > 0
          /\ Len(workers) = size
          /\ \A i \in 1 .. Len(workers) : workers[i].id = i - 1

C2_Witness ==
    /\ size = 0
    /\ result = "Err"
    /\ mpc = "err"

C2_WitnessOk ==
    /\ size >= 2
    /\ result = "Ok"
    /\ Len(workers) = size

\* C3: during one render no pixel is ever written twice, nothing outside the
\* image is written, and when the render ends every pixel (x, y) with
\* 0 <= x < width and 0 <= y < height has been written exactly once.
C3_EachPixelWrittenOnce ==
    /\ rpc # "begin" => DOMAIN writes = Pixels(rW, rH)
    /\ \A p \in DOMAIN writes : writes[p] <= 1
    /\ rpc = "done" => \A p \in Pixels(rW, rH) : writes[p] = 1

C3_Witness ==
    /\ rpc = "done"
    /\ rW >= 2
    /\ rH >= 2
    /\ \A p \in Pixels(rW, rH) : writes[p] = 1

\* C4: the final image does not depend on the number of workers or on their
\* scheduling: for every pool size and every interleaving, the finished image
\* buffer holds at every pixel the value its fixed sampling sequence gives
\* (the image a single worker, or the sequential loop, produces).
ReferenceImage == [p \in Pixels(rW, rH) |-> PixelValue(rseed, p[1], p[2])]

C5_ClosestHitShaded ==
    cpc = "hit" =>
        \A k \in 1 .. Len(scene) :
            LET h == SphereHit(scene[k], cray, TMin, INFINITY, HitRecordNew)
            IN h.ok => crec.t <= h.rec.t

\* C6: a call with depth 0 returns black without testing any object and
\* without taking the background, whatever the ray and the scene.
C6_DepthZeroBlack ==
    cpc = "ret" /\ depth = 0 =>
        /\ value = Black
        /\ how = "depth"
        /\ tests = 0

C6_Witness ==
    /\ cpc = "ret"
    /\ depth = 0
    /\ stack = <<>>
    /\ value = Black
    /\ Len(scene) >= 1
    /\ SphereHit(scene[1], cray, TMin, INFINITY, HitRecordNew).ok

PerturbedReflection ==
    VAdd(VSub(UnitVector(mray.direction),
              VScale(2 * Dot(UnitVector(mray.direction), mrec.normal), mrec.normal)),
         VScale(mat.fuzz, mruv))

C8_ScatterContract ==
    mst = "scattered" =>
        /\ mat.kind = "Lambertian" => mout.some /\ mout.ray.origin = mrec.point
        /\ mat.kind = "Metal" =>
              /\ ~mout.some <=> Dot(PerturbedReflection, mrec.normal) <= 0
              /\ mout.some => mout.ray = Ray(mrec.point, PerturbedReflection)

C8_Witness ==
    /\ mst = "scattered"
    /\ mat.kind = "Metal"
    /\ ~mout.some
    /\ Dot(PerturbedReflection, mrec.normal) = 0

C8_WitnessSome ==
    /\ mst = "scattered"
    /\ mat.kind = "Metal"
    /\ mat.fuzz > 0
    /\ mout.some

\* C9: whatever the fuzz argument, the Metal built by Metal::fuzzy stores a
\* fuzz in [0, 1] (above 1 is stored as 1), and Metal::shiny stores 0.
C9_FuzzInUnitRange ==
    mst # "new" /\ mat.kind = "Metal" =>
        /\ 0 <= mat.fuzz /\ mat.fuzz <= Unit
        /\ fuzzArg > Unit => mat.fuzz = Unit
        /\ mctor = "Metal::shiny" => mat.fuzz = 0

\* C10: Image::new sets height to width / aspect_ratio rounded to the nearest
\* integer, for every positive width and aspect ratio.
C10_HeightRounded ==
    image # NoImage =>
        2 * Abs(image.height * imgAspect[1] - imgWidth * imgAspect[2]) <= imgAspect[1]

\* C10, amended: Image::new sets height to the integer part of
\* width / aspect_ratio (the `as u32` cast drops the fraction).
C10_HeightTruncated ==
    image # NoImage =>
        /\ image.width = imgWidth
        /\ image.height * imgAspect[1] <= imgWidth * imgAspect[2]
        /\ imgWidth * imgAspect[2] < (image.height + 1) * imgAspect[1]

C10_Witness ==
    /\ image # NoImage
    /\ 2 * (imgWidth * imgAspect[2] - image.height * imgAspect[1]) > imgAspect[1]

\* C11: combine_samples followed by get_u8 gives, per channel, the integer
\* part of 256 * clamp(sqrt(sum / samples), 0, 0.999), the mean being taken as
\* the code takes it (sum times the reciprocal of samples); the combined
\* channel lies in [0, 256), so the cast to u8 neither saturates nor wraps and
\* every channel is in 0 .. 255; a channel whose mean is 1 or more gives 255,
\* however large the sum, and an empty sum gives 0.
ChannelNames == {"r", "g", "b"}

ChannelIndex(n) == IF n = "r" THEN 1 ELSE IF n = "g" THEN 2 ELSE 3

ExpectedU8(sum, samples) ==
    LET mean == FMul(sum, FDiv(Unit, samples * Unit))
        root == FSqrt(mean)
        clamped == IF root < 0 THEN 0 ELSE IF root > 999 THEN 999 ELSE root
    IN (256 * clamped) \div Unit

HitOc == VSub(hRay.origin, hSphere.center)

HitA == Dot(hRay.direction, hRay.direction)

HitB == 2 * Dot(hRay.direction, HitOc)

HitDiscriminant ==
    FMul(HitB, HitB) - 4 * FMul(HitA, Dot(HitOc, HitOc) - FMul(hSphere.radius, hSphere.radius))

HitSmallerRoot == FDiv(-HitB - FSqrt(HitDiscriminant), 2 * HitA)

HitLargerRoot == FDiv(-HitB + FSqrt(HitDiscriminant), 2 * HitA)

InOpenInterval(t) == hTMin < t /\ t < hTMax

InClosedInterval(t) == hTMin <= t /\ t <= hTMax

C13_RecordUntouchedOnMiss ==
    /\ hPc = "returned" /\ hOk = FALSE => hRec = hRec0
    /\ hRec # hRec0 => hPc = "returned" /\ hOk = TRUE

\* A miss with a non-negative discriminant (both roots out of range) on a
\* record that held an earlier hit.
C13_Witness ==
    /\ hPc = "returned"
    /\ hOk = FALSE
    /\ HitDiscriminant > 0
    /\ hRec0 # HitRecordNew
    /\ hRec = hRec0

\* What is left of the computation: 0 when the outermost call has returned,
\* the calls still to return while returning, and otherwise a number that
\* grows with the depth left and falls as the scan of the call goes on.
ColorRank ==
    IF cpc = "done" THEN 0
    ELSE IF cpc = "ret" THEN 1 + Len(stack)
    ELSE (MaxDepth + 2) + depth * (Len(scene) + 3) +
         (IF cpc = "call" THEN Len(scene) + 2
          ELSE IF cpc = "scan" THEN Len(scene) - idx + 2
          ELSE 1)

\* C14: the integrator terminates: every nested call runs with depth exactly
\* one less than its caller's, a call with depth 0 does not recurse, so a
\* call started with depth d has at most d + 1 calls nested at any time; and
\* every step of the computation lowers a non-negative rank, so that no
\* computation goes on for ever, even when every ray hits and scatters.
C14_IntegratorTerminates ==
    /\ [](depth = depth0 - Len(stack))
    /\ [](Len(stack) + 1 <= depth0 + 1)
    /\ [][Len(stack') > Len(stack) => depth > 0 /\ depth' = depth - 1]_vars
    /\ [][cpc = "call" /\ depth = 0 => cpc' = "ret" /\ stack' = stack]_vars
    /\ [](ColorRank >= 0)
    /\ [][ColorRank' < ColorRank]_vars

\* A chain of the full length: started with the largest depth, the innermost
\* call, with depth 0, has returned while depth0 callers wait for it.
C14_Witness ==
    /\ depth0 = MaxDepth
    /\ Len(stack) = depth0
    /\ depth = 0
    /\ cpc = "ret"
    /\ how = "depth"

SentinelsQueued == Cardinality({i \in 1 .. Len(queue) : queue[i].type = "Terminate"})

WorkersExited == Cardinality({w \in WorkerIds : wstate[w] = "exited"})

\* C15 (as stated): termination is signalled by dropping the sender and not
\* by a sentinel: no Terminate message is ever on the job queue, and a
\* worker that has left its loop left it because the channel was closed.
C15_NoSentinelEverQueued ==
    /\ SentinelsQueued = 0
    /\ \A w \in WorkerIds : wstate[w] = "exited" => ~senderAlive

\* C15 (amended): termination is signalled by a sentinel message: dropping
\* the pool places one Terminate per worker on the job queue, and only then;
\* every worker that has left its loop has taken one Terminate off the
\* queue; no worker panics; the sender is dropped only when every worker
\* has left its loop, so no worker ever finds the channel closed.
C15_SentinelTerminatesWorkers ==
    /\ SentinelsQueued > 0 => mpc \in {"drop_send", "drop_join"}
    /\ termSent <= Len(workers)
    /\ WorkersExited + SentinelsQueued = termSent
    /\ \A w \in WorkerIds : wstate[w] # "panicked"
    /\ channel /\ ~senderAlive => \A w \in WorkerIds : w < size => wstate[w] = "exited"
    /\ mpc = "dropped" => termSent = size /\ SentinelsQueued = 0

\* A pool of several workers, dropped after work was done: each worker took
\* its own sentinel.
C15_Witness ==
    /\ mpc = "dropped"
    /\ size >= 2
    /\ sent >= 1
    /\ termSent = size
    /\ WorkersExited = size
    /\ queue = <<>>

\* C16: the job-queue mutex is held only while a message is received, never
\* while a job runs: at most one worker holds the lock, a worker that holds
\* it is in its receive, and no worker that runs a job holds it (so that two
\* workers can run jobs at the same time).
C16_LockOnlyWhileReceiving ==
    /\ Cardinality(lock) <= 1
    /\ \A w \in lock : wstate[w] = "recv"
    /\ \A w \in WorkerIds : wstate[w] = "running" => w \notin lock
    /\ \A w \in WorkerIds : wstate[w] = "recv" => w \in lock

\* Two workers run two different jobs at the same time.
C16_Witness ==
    \E w1, w2 \in WorkerIds :
        /\ w1 # w2
        /\ wstate[w1] = "running"
        /\ wstate[w2] = "running"
        /\ wjob[w1] # wjob[w2]
        /\ lock = {}

====
